---- MODULE Spec2Model ----
(***************************************************************************)
(* maildir-dedup: the Maildir subclass that keeps the table of contents    *)
(* (_toc) in step with the directory (src/maildedup.py, class Maildir) and *)
(* the deduplication pass over it (maildir_dedup).                         *)
(*                                                                         *)
(* The directory is a function from paths <<subdir, uniq, info>> to the    *)
(* stored file (headers, body, mtime); the file name is uniq, followed by  *)
(* ":" and info when info is not empty.  An in-memory message is a record  *)
(* [kind, headers, body, date, subdir, info]; kind "maildir" is a          *)
(* mailbox.MaildirMessage, kind "plain" any other message, which carries   *)
(* neither subdir, info nor date.                                          *)
(***************************************************************************)
EXTENDS Integers, Sequences, FiniteSets, TLC

VARIABLES
    files,          \* the directory: path -> [headers, body, mtime]
    toc,            \* Maildir._toc: key -> path
    nextKey,        \* the next unique name _create_tmp will generate
    lastRead,       \* Maildir._last_read: 0 until a directory scan, then 1
    last,           \* the last call made on the store, with the state before it
    pc,             \* position of the dedup pass, or of the process around it
    dryrun,         \* maildir_dedup's dryrun argument
    key_by_msgid,   \* sequence of [msgid, keys], in insertion order
    gi,             \* index of the msgid group being processed
    msg_by_digest,  \* sequence of [digest, msgs], in insertion order
    di,             \* index of the digest group being processed
    new_key,        \* key of the message that is kept
    new_msg,        \* the kept message, in memory
    msgs,           \* the sorted (key, msg) pairs that follow the kept one
    changed,        \* whether a header field was merged into new_msg
    ri,             \* index into msgs of the next message to remove
    out,            \* the lines printed by the pass
    ops,            \* the mutating calls the pass has made on the store
    passNo,         \* number of passes started
    files0,         \* the directory when the current pass started
    prevOut,        \* what the previous pass printed
    prevDry,        \* the previous pass's dryrun argument
    prevPc          \* where the previous pass ended

storeVars == <<files, toc, nextKey, lastRead>>
loopVars == <<key_by_msgid, gi, msg_by_digest, di, new_key, new_msg, msgs, changed, ri>>
passVars == <<pc, dryrun, out, ops, passNo, files0, prevOut, prevDry, prevPc>>
vars == <<files, toc, nextKey, lastRead, last, pc, dryrun, key_by_msgid, gi,
          msg_by_digest, di, new_key, new_msg, msgs, changed, ri, out, ops,
          passNo, files0, prevOut, prevDry, prevPc>>

(***************************************************************************)
(* Bounds of the model.                                                    *)
(***************************************************************************)
\* fresh unique names the store hands out in the store-level specification
MaxAdds == 3
\* messages in the mailbox when the first dedup pass starts
NumMsgs == 3
\* messages in the mailbox of the specification with several identical sets
NumPairMsgs == 4
\* dedup passes run one after the other on the same mailbox
MaxPasses == 2
\* mailbox paths given to one invocation of the tool
NumPaths == 2

Dates == {1, 2}
\* the unique names start at 1: 0 stands for no key
NoPath == <<"none", 0, "">>
NoMsg == [kind |-> "none", headers |-> <<>>, body |-> "", date |-> 0,
          subdir |-> "", info |-> ""]
None == "None"

(***************************************************************************)
(* Header access of email.message.Message: field names match without       *)
(* regard to case, values are kept as written.                             *)
(***************************************************************************)
\* str.lower() on the field names that occur in the model
Lower(name) ==
    CASE name = "X-GMAIL-MSGID" -> "x-gmail-msgid"
      [] name = "X-GMAIL-LABELS" -> "x-gmail-labels"
      [] name = "X-getmail-retrieved-from-mailbox" -> "x-getmail-retrieved-from-mailbox"
      [] name = "Subject" -> "subject"
      [] OTHER -> name

\* msg[name]: the value of the first field of that name, or None
GetHeader(headers, name) ==
    LET hit == {i \in 1..Len(headers) : Lower(headers[i][1]) = Lower(name)}
    IN IF hit = {} THEN None
       ELSE headers[CHOOSE i \in hit : \A j \in hit : i <= j][2]

\* del msg[name]: every field of that name is dropped, the order of the rest kept
DelHeader(headers, name) ==
    SelectSeq(headers, LAMBDA h : Lower(h[1]) # Lower(name))

\* msg[name] = val: the field is appended, whatever fields exist already
SetHeader(headers, name, val) == Append(headers, <<name, val>>)

(***************************************************************************)
(* mailbox.Maildir, as far as class Maildir relies on it.  A store value   *)
(* s is [files, toc, nextKey, lastRead].                                   *)
(***************************************************************************)
Without(f, x) == [k \in DOMAIN f \ {x} |-> f[k]]

\* the table of contents a listing of new/ and cur/ yields: the part of the
\* file name before the colon maps to the path of the file
Scan(fs) ==
    [k \in {p[2] : p \in DOMAIN fs} |-> CHOOSE p \in DOMAIN fs : p[2] = k]

\* Maildir._refresh, when the directories changed since they were last read
Refresh(s) == [s EXCEPT !.toc = Scan(s.files), !.lastRead = 1]

\* a lookup that lists the directory whatever the table of contents holds
LookupRescans(s, key) ==
    LET r == Refresh(s)
    IN IF key \in DOMAIN r.toc
       THEN [found |-> TRUE, path |-> r.toc[key], st |-> r, scans |-> 1]
       ELSE [found |-> FALSE, path |-> NoPath, st |-> r, scans |-> 1]

\* Maildir._lookup: the cached path when its file exists, else after a re-scan;
\* scans tells how often _refresh was called
Lookup(s, key) ==
    IF key \in DOMAIN s.toc /\ s.toc[key] \in DOMAIN s.files
    THEN [found |-> TRUE, path |-> s.toc[key], st |-> s, scans |-> 0]
    ELSE LET r == Refresh(s)
         IN IF key \in DOMAIN r.toc
            THEN [found |-> TRUE, path |-> r.toc[key], st |-> r, scans |-> 1]
            ELSE [found |-> FALSE, path |-> NoPath, st |-> r, scans |-> 1]

MsgSubdir(m) == IF m.kind = "maildir" THEN m.subdir ELSE "new"
MsgInfo(m) == IF m.kind = "maildir" THEN m.info ELSE ""

\* mailbox.Maildir.add: the message is written under a fresh unique name into
\* the subdirectory and with the info it names; the file's mtime is the
\* message's date (a MaildirMessage) or the time of writing
BaseAdd(s, m, now) ==
    LET key == s.nextKey
        dest == <<MsgSubdir(m), key, MsgInfo(m)>>
        f == [headers |-> m.headers, body |-> m.body,
              mtime |-> IF m.kind = "maildir" THEN m.date ELSE now]
    IN [s EXCEPT !.files = (dest :> f) @@ s.files, !.nextKey = key + 1]

\* add as mailbox.Maildir has it: the table of contents is left alone
AddWithoutToc(s, m, now) == [key |-> s.nextKey, st |-> BaseAdd(s, m, now), scans |-> 0]

\* Maildir.add
Add(s, m, now) ==
    LET key == s.nextKey
        b == BaseAdd(s, m, now)
        subdir == IF m.kind = "maildir" THEN m.subdir ELSE "new"
        suffix == IF m.kind = "maildir" THEN m.info ELSE ""
        dest == <<subdir, key, suffix>>
    IN [key |-> key,
        st |-> IF key \notin DOMAIN b.toc /\ dest \in DOMAIN b.files
               THEN [b EXCEPT !.toc = (key :> dest) @@ b.toc]
               ELSE b,
        scans |-> 0]

\* remove that forgets the file: only the table of contents loses the key
RemoveTocOnly(s, key) ==
    LET l == Lookup(s, key)
    IN IF ~l.found
       THEN [result |-> "KeyError", st |-> l.st, scans |-> l.scans]
       ELSE [result |-> "ok", st |-> [l.st EXCEPT !.toc = Without(l.st.toc, key)],
             scans |-> l.scans]

\* Maildir.remove
Remove(s, key) ==
    LET l == Lookup(s, key)
    IN IF ~l.found
       THEN [result |-> "KeyError", st |-> l.st, scans |-> l.scans]
       ELSE [result |-> "ok",
             st |-> [l.st EXCEPT !.files = Without(l.st.files, l.path),
                                 !.toc = Without(l.st.toc, key)],
             scans |-> l.scans]

\* os.rename(src, dst): dst is replaced by src in one step
Rename(fs, src, dst) ==
    [p \in (DOMAIN fs \cup {dst}) \ {src} |-> IF p = dst THEN fs[src] ELSE fs[p]]

\* the rename done, but the temporary key left in the table of contents
CommittedKeepsTempKey(s, temp_key, temp_path, dest) ==
    [s EXCEPT !.files = Rename(s.files, temp_path, dest)]

\* the key moved to the subdirectory and the info of the temporary file
CommittedAtNewPlace(s, temp_key, temp_path, dest) ==
    LET moved == <<temp_path[1], dest[2], temp_path[3]>>
    IN [s EXCEPT !.files = Rename(Without(s.files, dest), temp_path, moved),
                 !.toc = (dest[2] :> moved) @@ Without(s.toc, temp_key)]

\* __setitem__ once os.rename succeeded: the temporary file has taken the
\* place of the old one, and the temporary key leaves the table of contents
Committed(s, temp_key, temp_path, dest) ==
    [s EXCEPT !.files = Rename(s.files, temp_path, dest),
              !.toc = Without(s.toc, temp_key)]

\* the error raised with the temporary message left where add put it
RolledBackNothing(s, temp_key) == s

\* __setitem__ once os.rename failed: self.remove(temp_key), then raise
RolledBack(s, temp_key) == Remove(s, temp_key).st

\* __setitem__ that writes the temporary message before it looks up the key
SetItemAddFirst(s, key, m, now, renameOk) ==
    LET a == Add(s, m, now)
        l == Lookup(a.st, key)
    IN IF ~l.found
       THEN [result |-> "KeyError", st |-> l.st, temp_key |-> a.key, scans |-> l.scans]
       ELSE IF renameOk
       THEN [result |-> "ok",
             st |-> Committed(l.st, a.key, l.st.toc[a.key], l.path),
             temp_key |-> a.key, scans |-> l.scans]
       ELSE [result |-> "OSError", st |-> RolledBack(l.st, a.key), temp_key |-> a.key,
             scans |-> l.scans + Remove(l.st, a.key).scans]

\* Maildir.__setitem__; renameOk tells whether os.rename succeeds
SetItem(s, key, m, now, renameOk) ==
    LET l == Lookup(s, key)
    IN IF ~l.found
       THEN [result |-> "KeyError", st |-> l.st, temp_key |-> 0, scans |-> l.scans]
       ELSE LET a == Add(l.st, m, now)
                t == Lookup(a.st, a.key)
            IN IF ~t.found
               THEN [result |-> "KeyError", st |-> t.st, temp_key |-> a.key,
                     scans |-> l.scans + t.scans]
               ELSE IF renameOk
               THEN [result |-> "ok",
                     st |-> Committed(t.st, a.key, t.path, l.path),
                     temp_key |-> a.key, scans |-> l.scans + t.scans]
               ELSE [result |-> "OSError",
                     st |-> RolledBack(t.st, a.key),
                     temp_key |-> a.key,
                     scans |-> l.scans + t.scans + Remove(t.st, a.key).scans]

\* mailbox.Maildir.get_message: subdir and info come from the path, the date
\* from the file's mtime
GetMessage(s, key) ==
    LET l == Lookup(s, key)
    IN IF ~l.found
       THEN [result |-> "KeyError", st |-> l.st, msg |-> NoMsg, scans |-> l.scans]
       ELSE [result |-> "ok", st |-> l.st, scans |-> l.scans,
             msg |-> [kind |-> "maildir",
                      headers |-> l.st.files[l.path].headers,
                      body |-> l.st.files[l.path].body,
                      date |-> l.st.files[l.path].mtime,
                      subdir |-> l.path[1], info |-> l.path[3]]]

Store == [files |-> files, toc |-> toc, nextKey |-> nextKey, lastRead |-> lastRead]

SetStore(s) ==
    /\ files' = s.files
    /\ toc' = s.toc
    /\ nextKey' = s.nextKey
    /\ lastRead' = s.lastRead

(***************************************************************************)
(* The store driven call by call, as the tests drive it, from an empty     *)
(* mailbox.                                                                *)
(***************************************************************************)
\* the messages handed to add and __setitem__
ApiPlaces == {<<"new", "">>, <<"cur", "2,S">>}
ApiHeaders == {<<<<"Subject", "s1">>>>, <<<<"Subject", "s2">>>>}
ApiMsgs ==
    {[kind |-> "maildir", headers |-> h, body |-> "Sample body", date |-> 1,
      subdir |-> pl[1], info |-> pl[2]] : h \in ApiHeaders, pl \in ApiPlaces}
    \cup
    {[kind |-> "plain", headers |-> h, body |-> "Sample body", date |-> 0,
      subdir |-> "", info |-> ""] : h \in ApiHeaders}

\* the times at which a message may be written: only a message without a date
\* of its own takes the time of writing
Clock(m) == IF m.kind = "maildir" THEN {0} ELSE {2}

ApiKeys == 1..MaxAdds

NoCall == [op |-> "none", key |-> 0, msg |-> NoMsg, renameOk |-> TRUE,
           result |-> "ok", temp_key |-> 0, scans |-> 0,
           pre |-> [files |-> <<>>, toc |-> <<>>]]

Pre == [files |-> files, toc |-> toc]

IdlePass ==
    /\ pc = "idle" /\ dryrun = FALSE /\ key_by_msgid = <<>> /\ gi = 0
    /\ msg_by_digest = <<>> /\ di = 0 /\ new_key = 0 /\ new_msg = NoMsg
    /\ msgs = <<>> /\ changed = FALSE /\ ri = 0 /\ out = <<>> /\ ops = <<>>
    /\ passNo = 0 /\ files0 = <<>> /\ prevOut = <<>> /\ prevDry = FALSE
    /\ prevPc = "none"

\* Maildir(path) on a directory without messages
InitStore ==
    /\ files = <<>> /\ toc = <<>> /\ nextKey = 1 /\ lastRead = 0
    /\ last = NoCall
    /\ IdlePass

ApiAdd ==
    \E m \in ApiMsgs : \E now \in Clock(m) :
        /\ nextKey <= MaxAdds
        /\ LET a == Add(Store, m, now)
           IN /\ SetStore(a.st)
              /\ last' = [op |-> "add", key |-> a.key, msg |-> m, renameOk |-> TRUE, result |-> "ok",
                          temp_key |-> 0, scans |-> a.scans, pre |-> Pre]
        /\ UNCHANGED <<loopVars, passVars>>

ApiRemove ==
    \E k \in ApiKeys :
        /\ LET r == Remove(Store, k)
           IN /\ SetStore(r.st)
              /\ last' = [op |-> "remove", key |-> k, msg |-> NoMsg, renameOk |-> TRUE,
                          result |-> r.result, temp_key |-> 0, scans |-> r.scans,
                          pre |-> Pre]
        /\ UNCHANGED <<loopVars, passVars>>

ApiReplace ==
    \E k \in ApiKeys, m \in ApiMsgs, renameOk \in BOOLEAN : \E now \in Clock(m) :
        /\ Lookup(Store, k).found => nextKey <= MaxAdds
        /\ LET r == SetItem(Store, k, m, now, renameOk)
           IN /\ SetStore(r.st)
              /\ last' = [op |-> "replace", key |-> k, msg |-> m, renameOk |-> renameOk,
                          result |-> r.result, temp_key |-> r.temp_key,
                          scans |-> r.scans, pre |-> Pre]
        /\ UNCHANGED <<loopVars, passVars>>

ApiGet ==
    \E k \in ApiKeys :
        /\ LET r == GetMessage(Store, k)
           IN /\ SetStore(r.st)
              /\ last' = [op |-> "get", key |-> k, msg |-> r.msg, renameOk |-> TRUE,
                          result |-> r.result, temp_key |-> 0, scans |-> r.scans,
                          pre |-> Pre]
        /\ UNCHANGED <<loopVars, passVars>>

NextStore == ApiAdd \/ ApiRemove \/ ApiReplace \/ ApiGet

SpecStore == InitStore /\ [][NextStore]_vars

(***************************************************************************)
(* maildir_dedup.  The pass is cut at its calls on the store: each of      *)
(* __setitem__, remove and flush is a step of its own, and so is each turn *)
(* of the two outer loops.                                                 *)
(***************************************************************************)
\* the keys of a table of contents in the order the directory listing gave them
RECURSIVE KeySeq(_)
KeySeq(S) ==
    IF S = {} THEN <<>>
    ELSE LET k == CHOOSE x \in S : \A y \in S : x <= y
         IN <<k>> \o KeySeq(S \ {k})

\* an append that enters the value twice
DictAppendTwice(d, k, v) ==
    IF \E i \in 1..Len(d) : d[i].k = k
    THEN [i \in 1..Len(d) |-> IF d[i].k = k THEN [d[i] EXCEPT !.v = Append(Append(@, v), v)]
                                ELSE d[i]]
    ELSE Append(d, [k |-> k, v |-> <<v, v>>])

\* defaultdict(list): d[k].append(v); a new k goes behind the ones present
DictAppend(d, k, v) ==
    IF \E i \in 1..Len(d) : d[i].k = k
    THEN [i \in 1..Len(d) |-> IF d[i].k = k THEN [d[i] EXCEPT !.v = Append(@, v)] ELSE d[i]]
    ELSE Append(d, [k |-> k, v |-> <<v>>])

\* the grouping without the test for None: the messages that have no
\* X-GMAIL-MSGID field form a group of their own
RECURSIVE GroupAlsoWithoutMsgid(_, _, _)
GroupAlsoWithoutMsgid(s, keys, acc) ==
    IF keys = <<>> THEN acc
    ELSE LET key == Head(keys)
             g == GetMessage(s, key)
             msgid == GetHeader(g.msg.headers, "X-GMAIL-MSGID")
         IN IF g.result # "ok"
            THEN GroupAlsoWithoutMsgid(s, Tail(keys), acc)
            ELSE GroupAlsoWithoutMsgid(s, Tail(keys), DictAppend(acc, msgid, key))

\* the first loop: group the keys by the X-GMAIL-MSGID field
RECURSIVE GroupByMsgid(_, _, _)
GroupByMsgid(s, keys, acc) ==
    IF keys = <<>> THEN acc
    ELSE LET key == Head(keys)
             g == GetMessage(s, key)
             msgid == GetHeader(g.msg.headers, "X-GMAIL-MSGID")
         IN IF g.result # "ok" \/ msgid = None
            THEN GroupByMsgid(s, Tail(keys), acc)
            ELSE GroupByMsgid(s, Tail(keys), DictAppend(acc, msgid, key))

\* the hash taken with the labels still in the message
DigestWithLabels(msg) ==
    [headers |-> DelHeader(msg.headers, "X-getmail-retrieved-from-mailbox"),
     body |-> msg.body]

\* the bytes that are hashed: the message without the two fields, as
\* _dump_message writes it (the fields in order, then the body); sha512 is
\* taken to tell any two such byte strings apart
Digest(msg) ==
    [headers |-> DelHeader(DelHeader(msg.headers, "X-getmail-retrieved-from-mailbox"),
                           "X-GMAIL-LABELS"),
     body |-> msg.body]

\* the loop over the keys of one msgid: group (key, msg) by digest
RECURSIVE GroupByDigest(_, _, _)
GroupByDigest(s, keys, acc) ==
    IF keys = <<>> THEN [result |-> "ok", d |-> acc]
    ELSE LET key == Head(keys)
             g == GetMessage(s, key)
         IN IF g.result # "ok" THEN [result |-> "KeyError", d |-> acc]
            ELSE GroupByDigest(s, Tail(keys), DictAppend(acc, Digest(g.msg), <<key, g.msg>>))

\* a sort that puts a message in front of those of the same date
RECURSIVE InsertBeforeEqual(_, _)
InsertBeforeEqual(sorted, x) ==
    IF sorted = <<>> THEN <<x>>
    ELSE IF Head(sorted)[2].date < x[2].date
         THEN <<Head(sorted)>> \o InsertBeforeEqual(Tail(sorted), x)
         ELSE <<x>> \o sorted

\* sorted(msgs, key=get_date): a stable sort
RECURSIVE InsertByDate(_, _)
InsertByDate(sorted, x) ==
    IF sorted = <<>> THEN <<x>>
    ELSE IF Head(sorted)[2].date <= x[2].date
         THEN <<Head(sorted)>> \o InsertByDate(Tail(sorted), x)
         ELSE <<x>> \o sorted

RECURSIVE SortByDate(_)
SortByDate(ms) ==
    IF ms = <<>> THEN <<>>
    ELSE InsertByDate(SortByDate(SubSeq(ms, 1, Len(ms) - 1)), ms[Len(ms)])

\* the loop over msg.items(): m is [headers, changed]
RECURSIVE MergeItems(_, _)
MergeItems(m, items) ==
    IF items = <<>> THEN m
    ELSE LET key == Head(items)[1]
             val == Head(items)[2]
         IN IF key \notin {"X-getmail-retrieved-from-mailbox", "X-GMAIL-LABELS"}
            THEN MergeItems(m, Tail(items))
            ELSE IF \E i \in 1..Len(m.headers) : m.headers[i] = <<key, val>>
            THEN MergeItems(m, Tail(items))
            ELSE MergeItems([headers |-> SetHeader(m.headers, key, val),
                             changed |-> TRUE], Tail(items))

\* the loop over the messages that are not kept
RECURSIVE MergeMsgs(_, _)
MergeMsgs(m, ms) ==
    IF ms = <<>> THEN m
    ELSE MergeMsgs(MergeItems(m, Head(ms)[2].headers), Tail(ms))

\* the lines printed for one set of identical messages
RECURSIVE DeletingLines(_)
DeletingLines(ms) ==
    IF ms = <<>> THEN <<>>
    ELSE <<<<"Deleting duplicate message", Head(ms)[1]>>>> \o DeletingLines(Tail(ms))

\* the report without the line for the message that is kept
ReportOnlyDeleting(key, ch, ms) == DeletingLines(ms)

ReportLines(key, ch, ms) ==
    (IF ch THEN <<<<"Updating message", key>>>> ELSE <<>>) \o DeletingLines(ms)

\* the dryrun argument ignored
AfterReportLive(d, ch) == IF ch THEN "replace" ELSE "remove"

\* the kept message never written back
AfterReportNoUpdate(d, ch) == IF d THEN "sets" ELSE "remove"

\* where the pass goes once the lines of a set are printed: on to the next set
\* (if dryrun: continue), else to __setitem__ (if changed) or to the removals
AfterReport(d, ch) ==
    IF d THEN "sets" ELSE IF ch THEN "replace" ELSE "remove"

\* the messages a mailbox may hold when the first pass starts
IdHeaders == {<<>>, <<<<"X-GMAIL-MSGID", "m1">>>>}
ProvHeaders == {<<>>, <<<<"X-GMAIL-LABELS", "L1">>>>, <<<<"X-GMAIL-LABELS", "L2">>>>,
                <<<<"x-gmail-labels", "L1">>>>}
Mails ==
    {[headers |-> i \o p, body |-> b, mtime |-> d] :
        i \in IdHeaders, p \in ProvHeaders, b \in {"b1", "b2"}, d \in Dates}

\* the messages of the mailboxes that hold several identical sets: two
\* identifiers, one body and one date, with or without the mailbox field
PairMails ==
    {[headers |-> <<<<"X-GMAIL-MSGID", i>>>> \o p, body |-> "b1", mtime |-> 1] :
        i \in {"m1", "m2"},
        p \in {<<>>, <<<<"X-getmail-retrieved-from-mailbox", "INBOX">>>>}}

\* a mailbox of up to n delivered messages (none at all included) and no
\* Maildir object on it yet
InitMailbox(n, univ) ==
    /\ \E c \in 0..n :
        files \in {[p \in {<<"new", k, "">> : k \in 1..c} |-> f[p[2]]] : f \in [1..c -> univ]}
    /\ toc = <<>> /\ nextKey = Cardinality(DOMAIN files) + 1 /\ lastRead = 0
    /\ last = NoCall
    /\ IdlePass

Init == InitMailbox(NumMsgs, Mails)

InitPairs == InitMailbox(NumPairMsgs, PairMails)

\* __main__: mbox = Maildir(path, create=False); maildir_dedup(mbox, dryrun)
Invoke ==
    \E d \in BOOLEAN :
        /\ pc \in {"idle", "done", "failed"}
        /\ passNo < MaxPasses
        /\ pc' = "enumerate" /\ dryrun' = d /\ passNo' = passNo + 1
        /\ prevOut' = out /\ prevDry' = dryrun /\ prevPc' = pc
        /\ out' = <<>> /\ ops' = <<>> /\ files0' = files
        /\ toc' = <<>> /\ lastRead' = 0
        /\ key_by_msgid' = <<>> /\ gi' = 0 /\ msg_by_digest' = <<>> /\ di' = 0
        /\ new_key' = 0 /\ new_msg' = NoMsg /\ msgs' = <<>>
        /\ changed' = FALSE /\ ri' = 0
        /\ UNCHANGED <<files, nextKey, last>>

\* for key, msg in mbox.iteritems(): ... key_by_msgid[msgid].append(key)
Enumerate ==
    /\ pc = "enumerate"
    /\ LET s == Refresh(Store)
       IN /\ SetStore(s)
          /\ key_by_msgid' = GroupByMsgid(s, KeySeq(DOMAIN s.toc), <<>>)
    /\ gi' = 1
    /\ pc' = "groups"
    /\ UNCHANGED <<last, dryrun, msg_by_digest, di, new_key, new_msg, msgs, changed,
                   ri, out, ops, passNo, files0, prevOut, prevDry, prevPc>>

\* one turn of: for msgid, keys in key_by_msgid.items()
NextGroup ==
    /\ pc = "groups"
    /\ IF gi > Len(key_by_msgid)
       THEN /\ pc' = "done"
            /\ UNCHANGED <<gi, msg_by_digest, di>>
       ELSE IF Len(key_by_msgid[gi].v) < 2
       THEN /\ gi' = gi + 1
            /\ UNCHANGED <<pc, msg_by_digest, di>>
       ELSE LET h == GroupByDigest(Store, key_by_msgid[gi].v, <<>>)
            IN /\ msg_by_digest' = h.d
               /\ di' = 1
               /\ pc' = IF h.result = "ok" THEN "sets" ELSE "failed"
               /\ UNCHANGED gi
    /\ UNCHANGED <<storeVars, last, dryrun, key_by_msgid, new_key, new_msg, msgs,
                   changed, ri, out, ops, passNo, files0, prevOut, prevDry, prevPc>>

\* one turn of: for _, msgs in msg_by_digest.items(), up to the calls on mbox
NextSet ==
    /\ pc = "sets"
    /\ IF di > Len(msg_by_digest)
       THEN /\ gi' = gi + 1
            /\ pc' = "groups"
            /\ UNCHANGED <<di, new_key, new_msg, msgs, changed, ri, out>>
       ELSE IF Len(msg_by_digest[di].v) < 2
       THEN /\ di' = di + 1
            /\ UNCHANGED <<gi, pc, new_key, new_msg, msgs, changed, ri, out>>
       ELSE LET sorted == SortByDate(msg_by_digest[di].v)
                rest == Tail(sorted)
                first == [Head(sorted)[2] EXCEPT !.date = rest[Len(rest)][2].date]
                m == MergeMsgs([headers |-> first.headers, changed |-> FALSE], rest)
            IN /\ new_key' = Head(sorted)[1]
               /\ new_msg' = [first EXCEPT !.headers = m.headers]
               /\ msgs' = rest
               /\ changed' = m.changed
               /\ out' = out \o ReportLines(Head(sorted)[1], m.changed, rest)
               /\ ri' = 1
               /\ di' = IF dryrun THEN di + 1 ELSE di
               /\ pc' = AfterReport(dryrun, m.changed)
               /\ UNCHANGED gi
    /\ UNCHANGED <<storeVars, last, dryrun, key_by_msgid, msg_by_digest, ops, passNo,
                   files0, prevOut, prevDry, prevPc>>

\* if changed: mbox[new_key] = new_msg
DoReplace ==
    /\ pc = "replace"
    /\ \E renameOk \in BOOLEAN :
        LET r == SetItem(Store, new_key, new_msg, 0, renameOk)
        IN /\ SetStore(r.st)
           /\ ops' = Append(ops, [op |-> "replace", key |-> new_key, result |-> r.result])
           /\ pc' = IF r.result = "ok" THEN "remove" ELSE "failed"
    /\ UNCHANGED <<last, loopVars, dryrun, out, passNo, files0, prevOut, prevDry, prevPc>>

\* one turn of: for key, _ in msgs: mbox.remove(key)
DoRemove ==
    /\ pc = "remove"
    /\ ri <= Len(msgs)
    /\ LET r == Remove(Store, msgs[ri][1])
       IN /\ SetStore(r.st)
          /\ ops' = Append(ops, [op |-> "remove", key |-> msgs[ri][1], result |-> r.result])
          /\ pc' = IF r.result = "ok" THEN "remove" ELSE "failed"
    /\ ri' = ri + 1
    /\ UNCHANGED <<last, key_by_msgid, gi, msg_by_digest, di, new_key, new_msg, msgs,
                   changed, dryrun, out, passNo, files0, prevOut, prevDry, prevPc>>

\* the set left without the call of flush
DoFlushSkipped ==
    /\ pc = "remove"
    /\ ri > Len(msgs)
    /\ di' = di + 1
    /\ pc' = "sets"
    /\ UNCHANGED <<storeVars, last, key_by_msgid, gi, msg_by_digest, new_key, new_msg,
                   msgs, changed, ri, dryrun, out, ops, passNo, files0, prevOut, prevDry,
                   prevPc>>

\* mbox.flush(): Maildir writes every change at once, nothing is pending
DoFlush ==
    /\ pc = "remove"
    /\ ri > Len(msgs)
    /\ ops' = Append(ops, [op |-> "flush", key |-> 0, result |-> "ok"])
    /\ di' = di + 1
    /\ pc' = "sets"
    /\ UNCHANGED <<storeVars, last, key_by_msgid, gi, msg_by_digest, new_key, new_msg,
                   msgs, changed, ri, dryrun, out, passNo, files0, prevOut, prevDry,
                   prevPc>>

Next == Invoke \/ Enumerate \/ NextGroup \/ NextSet \/ DoReplace \/ DoRemove \/ DoFlush

Spec == Init /\ [][Next]_vars

SpecPairs == InitPairs /\ [][Next]_vars

(***************************************************************************)
(* __main__ with several paths: one process, one Maildir object and one    *)
(* pass per path, the same dryrun flag for all.  Only the mailbox at the   *)
(* path being processed is kept; passNo counts the paths taken up.         *)
(***************************************************************************)
\* the process is started, no path is taken up yet
InitPaths ==
    /\ files = <<>> /\ toc = <<>> /\ nextKey = 1 /\ lastRead = 0
    /\ last = NoCall
    /\ IdlePass

\* for path in args.path: mbox = Maildir(path, create=False);
\* maildir_dedup(mbox, dryrun=args.dryrun) is entered
NextPath ==
    \E d \in BOOLEAN :
        /\ pc \in {"idle", "done"}
        /\ passNo < NumPaths
        /\ passNo > 0 => d = dryrun
        /\ \E c \in 0..NumPairMsgs :
            files' \in {[p \in {<<"new", k, "">> : k \in 1..c} |-> f[p[2]]] :
                            f \in [1..c -> PairMails]}
        /\ nextKey' = Cardinality(DOMAIN files') + 1
        /\ toc' = <<>> /\ lastRead' = 0
        /\ files0' = files'
        /\ pc' = "enumerate" /\ dryrun' = d /\ passNo' = passNo + 1
        /\ out' = <<>> /\ ops' = <<>>
        /\ key_by_msgid' = <<>> /\ gi' = 0 /\ msg_by_digest' = <<>> /\ di' = 0
        /\ new_key' = 0 /\ new_msg' = NoMsg /\ msgs' = <<>>
        /\ changed' = FALSE /\ ri' = 0
        /\ UNCHANGED <<last, prevOut, prevDry, prevPc>>

\* the loop over the paths is through: the process ends
ExitMain ==
    /\ pc = "done"
    /\ passNo = NumPaths
    /\ pc' = "exited"
    /\ UNCHANGED <<storeVars, last, loopVars, dryrun, out, ops, passNo, files0, prevOut,
                   prevDry, prevPc>>

\* the exception maildir_dedup raised leaves the loop, which has no handler:
\* the process ends with a traceback
AbortMain ==
    /\ pc = "failed"
    /\ pc' = "aborted"
    /\ UNCHANGED <<storeVars, last, loopVars, dryrun, out, ops, passNo, files0, prevOut,
                   prevDry, prevPc>>

NextPaths ==
    \/ NextPath \/ Enumerate \/ NextGroup \/ NextSet \/ DoReplace \/ DoRemove \/ DoFlush
    \/ ExitMain \/ AbortMain

SpecPaths == InitPaths /\ [][NextPaths]_vars

(***************************************************************************)
(* Vocabulary of the properties, read off the directory alone.             *)
(***************************************************************************)
KeysOf(fs) == {p[2] : p \in DOMAIN fs}

FileOf(fs, k) == fs[CHOOSE p \in DOMAIN fs : p[2] = k]

Range(q) == {q[i] : i \in 1..Len(q)}

Provenance == {"x-getmail-retrieved-from-mailbox", "x-gmail-labels"}

\* the value of the identifier header of a stored message, None without one
Identifier(f) ==
    LET at == {i \in 1..Len(f.headers) : Lower(f.headers[i][1]) = "x-gmail-msgid"}
    IN IF at = {} THEN None
       ELSE f.headers[CHOOSE i \in at : \A j \in at : i <= j][2]

\* what the canonical digest is taken of: the fields that are no provenance
\* fields, and the body
Canonical(f) ==
    [headers |-> SelectSeq(f.headers, LAMBDA h : Lower(h[1]) \notin Provenance),
     body |-> f.body]

\* the provenance (field, value) pairs of a header sequence, the field in lower case
ProvPairs(hs) ==
    {<<Lower(hs[i][1]), hs[i][2]>> : i \in {j \in 1..Len(hs) : Lower(hs[j][1]) \in Provenance}}

\* the identical sets of a directory: the keys of the files that agree in
\* identifier and canonical form, where two or more do
IdenticalSets(fs) ==
    LET sig == [p \in DOMAIN fs |-> <<Identifier(fs[p]), Canonical(fs[p])>>]
        class(p) == {q[2] : q \in {r \in DOMAIN fs : sig[r] = sig[p]}}
    IN {S \in {class(p) : p \in {r \in DOMAIN fs : sig[r][1] # None}} :
            Cardinality(S) >= 2}

\* the identical sets the current pass started from, and what is left of one
Sets0 == IdenticalSets(files0)

Present(S) == S \cap KeysOf(files)

Untouched(S) ==
    \A k \in S : k \in KeysOf(files) /\ FileOf(files, k) = FileOf(files0, k)

LatestDate(S) ==
    CHOOSE d \in {FileOf(files0, k).mtime : k \in S} :
        \A k \in S : FileOf(files0, k).mtime <= d

EarliestDate(S) ==
    CHOOSE d \in {FileOf(files0, k).mtime : k \in S} :
        \A k \in S : d <= FileOf(files0, k).mtime

IsPrefix(a, b) == Len(a) <= Len(b) /\ SubSeq(b, 1, Len(a)) = a

LivePassDone == pc = "done" /\ ~dryrun

(***************************************************************************)
(* C1.  TOC consistency: after any sequence of add, remove and replace     *)
(* calls on a store that started empty, whether they succeed or fail,      *)
(* every key of the TOC maps to a path at which a file exists, every       *)
(* message file is the target of exactly one key, and the TOC is what a    *)
(* fresh scan of the directory gives.                                      *)
(***************************************************************************)
C1_TocConsistent ==
    /\ \A k \in DOMAIN toc : toc[k] \in DOMAIN files
    /\ \A p \in DOMAIN files : Cardinality({k \in DOMAIN toc : toc[k] = p}) = 1
    /\ toc = Scan(files)

\* a rename has failed, and was undone, with two messages in the store
C1_Witness ==
    /\ last.op = "replace" /\ last.result = "OSError"
    /\ Cardinality(DOMAIN files) = 2
    /\ nextKey = 4

(***************************************************************************)
(* C2.  Survivor timestamp rule: when a live pass is done, what is stored  *)
(* of every identical set of two or more has the latest timestamp of the   *)
(* set's members and the content of a member with the earliest timestamp,  *)
(* also when no header field had to be merged.                             *)
(***************************************************************************)
C2_SurvivorTimestamp ==
    LivePassDone =>
        \A S \in Sets0 : \A k \in Present(S) :
            /\ FileOf(files, k).mtime = LatestDate(S)
            /\ FileOf(files, k).body = FileOf(files0, k).body
            /\ \E e \in S :
                /\ FileOf(files0, e).mtime = EarliestDate(S)
                /\ IsPrefix(FileOf(files0, e).headers, FileOf(files, k).headers)

(***************************************************************************)
(* C3.  Provenance merge completeness: when a live pass is done, every     *)
(* provenance (field, value) pair of a removed member of an identical set, *)
(* the field name taken without regard to case, is on the stored survivor, *)
(* and no pair was added that the survivor carried already.                *)
(***************************************************************************)
C3_MergeComplete ==
    LivePassDone =>
        \A S \in Sets0 : \A k \in Present(S) :
            LET before == FileOf(files0, k).headers
                after == FileOf(files, k).headers
                added == SubSeq(after, Len(before) + 1, Len(after))
            IN /\ \A c \in S \ {k} :
                    ProvPairs(FileOf(files0, c).headers) \subseteq ProvPairs(after)
               /\ IsPrefix(before, after)
               /\ ProvPairs(added) \cap ProvPairs(before) = {}
               /\ Cardinality(ProvPairs(added)) = Len(added)

(***************************************************************************)
(* C4.  Content equivalence: when a live pass is done, any two messages    *)
(* left in the store differ in their identifier header, or one has none,   *)
(* or they differ in their canonical digest.                               *)
(***************************************************************************)
C4_ContentEquivalence ==
    LivePassDone =>
        \A j, k \in KeysOf(files) :
            j # k =>
                \/ Identifier(FileOf(files, j)) = None
                \/ Identifier(FileOf(files, k)) = None
                \/ Identifier(FileOf(files, j)) # Identifier(FileOf(files, k))
                \/ Canonical(FileOf(files, j)) # Canonical(FileOf(files, k))

\* a live pass merged and removed, and left two messages of one identifier
C4_Witness ==
    /\ LivePassDone
    /\ \E i \in 1..Len(ops) : ops[i].op = "replace" /\ ops[i].result = "ok"
    /\ \E j, k \in KeysOf(files) :
        /\ j # k
        /\ Identifier(FileOf(files, j)) # None
        /\ Identifier(FileOf(files, j)) = Identifier(FileOf(files, k))

(***************************************************************************)
(* C5.  Idempotence: a live pass that follows a completed live pass on the *)
(* same mailbox calls neither __setitem__ nor remove, prints nothing and   *)
(* leaves every key, file content and timestamp as it was.                 *)
(***************************************************************************)
SecondLivePass == passNo >= 2 /\ ~dryrun /\ ~prevDry /\ prevPc = "done"

C5_Idempotent ==
    SecondLivePass =>
        /\ ops = <<>>
        /\ out = <<>>
        /\ files = files0
        /\ pc # "failed"
        /\ pc \notin {"enumerate"} => toc = Scan(files0)

\* the second pass is done, and the first one had merged and removed
C5_Witness ==
    /\ SecondLivePass
    /\ pc = "done"
    /\ \E k \in 1..NumMsgs : <<"Updating message", k>> \in Range(prevOut)
    /\ Cardinality(KeysOf(files)) = NumMsgs - 1

(***************************************************************************)
(* C6.  Dry-run purity: a pass with dryrun set makes no call that changes  *)
(* the store, leaves the files, their contents and timestamps as they were *)
(* and the TOC as a scan of them, and prints the lines a live pass prints  *)
(* from the same mailbox.                                                  *)
(***************************************************************************)
C6_DryRunPure ==
    /\ (dryrun /\ pc # "idle") =>
        /\ ops = <<>>
        /\ files = files0
        /\ pc # "failed"
        /\ pc # "enumerate" => toc = Scan(files0)
    /\ (LivePassDone /\ prevDry /\ prevPc = "done") => out = prevOut

\* a live pass that followed a dry run is done, having merged and removed
C6_Witness ==
    /\ LivePassDone /\ prevDry /\ prevPc = "done"
    /\ \E k \in 1..NumMsgs : <<"Updating message", k>> \in Range(out)
    /\ Len(out) = 3
    /\ Cardinality(KeysOf(files)) = 1

(***************************************************************************)
(* C7.  Replace preserves key identity: after a successful replace of an   *)
(* existing key the key is in the TOC, get(key) gives the new content, the *)
(* temporary key is not in the TOC, the TOC has as many entries and the    *)
(* directory as many files as before, and one file is named by the key.    *)
(***************************************************************************)
ReplacedOk ==
    last.op = "replace" /\ last.result = "ok" /\ last.key \in DOMAIN last.pre.toc

C7_ReplaceKeepsKey ==
    ReplacedOk =>
        /\ last.key \in DOMAIN toc
        /\ LET g == GetMessage(Store, last.key)
           IN /\ g.result = "ok"
              /\ g.msg.headers = last.msg.headers
              /\ g.msg.body = last.msg.body
              /\ last.msg.kind = "maildir" => g.msg.date = last.msg.date
        /\ last.temp_key \notin DOMAIN toc
        /\ last.temp_key \notin KeysOf(files)
        /\ Cardinality(DOMAIN toc) = Cardinality(DOMAIN last.pre.toc)
        /\ Cardinality(DOMAIN files) = Cardinality(DOMAIN last.pre.files)
        /\ Cardinality({p \in DOMAIN files : p[2] = last.key}) = 1

\* a replace among two stored messages has changed the content of its key
C7_Witness ==
    /\ ReplacedOk
    /\ Cardinality(DOMAIN toc) = 2
    /\ FileOf(files, last.key).headers # FileOf(last.pre.files, last.key).headers

(***************************************************************************)
(* C8.  Replace rollback: when the rename of a replace fails, the error    *)
(* reaches the caller, the temporary file and the temporary key are gone,  *)
(* and the key maps to its path and its content as before.                 *)
(***************************************************************************)
RenameFailed ==
    last.op = "replace" /\ ~last.renameOk /\ last.key \in DOMAIN last.pre.toc

C8_ReplaceRollsBack ==
    RenameFailed =>
        /\ last.result = "OSError"
        /\ last.temp_key \notin DOMAIN toc
        /\ last.temp_key \notin KeysOf(files)
        /\ last.key \in DOMAIN toc
        /\ toc[last.key] = last.pre.toc[last.key]
        /\ files[toc[last.key]] = last.pre.files[last.pre.toc[last.key]]
        /\ files = last.pre.files
        /\ toc = last.pre.toc

\* the rename failed for a message that differs from the stored one
C8_Witness ==
    /\ RenameFailed
    /\ last.temp_key # 0
    /\ last.msg.headers # FileOf(files, last.key).headers
    /\ Cardinality(DOMAIN files) = 2

(***************************************************************************)
(* C9.  Interruption bound: between any two calls of a live pass on the    *)
(* store at most one identical set is partially mutated; the sets the pass *)
(* dealt with before are fully mutated (the survivor stored if a merge was *)
(* announced, all others removed, flush called), the others untouched.     *)
(***************************************************************************)
OpsOn(S) == {i \in 1..Len(ops) : ops[i].key \in S}

Flushed(S) ==
    /\ OpsOn(S) # {}
    /\ LET m == CHOOSE i \in OpsOn(S) : \A j \in OpsOn(S) : j <= i
       IN m < Len(ops) /\ ops[m + 1].op = "flush"

MergeStored(S) ==
    \A k \in S :
        <<"Updating message", k>> \in Range(out) =>
            k \in KeysOf(files) /\ FileOf(files, k) # FileOf(files0, k)

FullyMutated(S) == Cardinality(Present(S)) = 1 /\ MergeStored(S) /\ Flushed(S)

PartlyMutated(S) == ~Untouched(S) /\ ~FullyMutated(S)

C9_InterruptionBound ==
    ~dryrun =>
        LET sets == Sets0
            partly == {S \in sets : PartlyMutated(S)}
            fully == {S \in sets : FullyMutated(S)}
        IN /\ Cardinality(partly) <= 1
           /\ \A S \in fully, T \in sets \ fully :
                \A i \in OpsOn(S), j \in OpsOn(T) : i < j
           /\ \A S \in sets \ (fully \cup partly) :
                \A i \in OpsOn(S) : ops[i].result # "ok"

\* one set is done with, the next one has its survivor stored and nothing removed
C9_Witness ==
    /\ ~dryrun
    /\ \E S, T \in Sets0 :
        /\ FullyMutated(S)
        /\ PartlyMutated(T)
        /\ Present(T) = T

(***************************************************************************)
(* C10.  No half-mutated identical set.  As claimed: between any two calls *)
(* of a live pass on the store no identical set has its survivor updated   *)
(* with a member still to be removed, nor a member removed with the        *)
(* survivor's update not stored.                                           *)
(***************************************************************************)
SurvivorUpdated(S) ==
    \E k \in Present(S) : FileOf(files, k) # FileOf(files0, k)

EnumPos(k) ==
    LET order == KeySeq(KeysOf(files0))
    IN CHOOSE i \in 1..Len(order) : order[i] = k

Survivor(S) ==
    LET early == EarliestDate(S)
        first == {e \in S : FileOf(files0, e).mtime = early}
        pos == [e \in first |-> EnumPos(e)]
    IN CHOOSE e \in first : \A o \in first : pos[e] <= pos[o]

C11_SurvivorSelection ==
    LivePassDone =>
        \A S \in Sets0 :
            /\ Present(S) = {Survivor(S)}
            /\ \A k \in S \ {Survivor(S)} : k \notin DOMAIN toc

\* three identical messages, the first one later than the two others: the
\* second one is kept
C11_Witness ==
    /\ LivePassDone
    /\ \E S \in Sets0 :
        /\ Cardinality(S) = 3
        /\ \E a, b, c \in S :
            /\ EnumPos(a) < EnumPos(b) /\ EnumPos(b) < EnumPos(c)
            /\ FileOf(files0, a).mtime > FileOf(files0, b).mtime
            /\ FileOf(files0, b).mtime = FileOf(files0, c).mtime
            /\ Present(S) = {b}

(***************************************************************************)
(* C12.  Untouched messages: a pass, live or dry, neither replaces nor     *)
(* removes nor reports a message that has no identifier header, that is    *)
(* alone in its identifier group or alone in its digest group; a mailbox   *)
(* without an identical set (an empty one, one without identifier headers, *)
(* one whose identifier groups have pairwise distinct digests) is left as  *)
(* it was and nothing is printed.                                          *)
(***************************************************************************)
\* the messages of the mailbox that are in no identical set
Loners0 == KeysOf(files0) \ UNION Sets0

PathOf(fs, k) == CHOOSE p \in DOMAIN fs : p[2] = k

C12_Untouched ==
    pc # "idle" =>
        LET sets == Sets0
        IN /\ \A k \in KeysOf(files0) \ UNION sets :
                /\ k \in KeysOf(files)
                /\ PathOf(files, k) = PathOf(files0, k)
                /\ FileOf(files, k) = FileOf(files0, k)
                /\ \A i \in 1..Len(ops) : ops[i].key # k
                /\ \A i \in 1..Len(out) : out[i][2] # k
           /\ sets = {} => (out = <<>> /\ ops = <<>> /\ files = files0)

\* a live pass has dealt with two identical messages, and a third one of the
\* same identifier differs from them in its body
C12_Witness ==
    /\ LivePassDone
    /\ \E i \in 1..Len(ops) : ops[i].op = "remove" /\ ops[i].result = "ok"
    /\ \E k \in Loners0 : \E j \in UNION Sets0 :
        /\ Identifier(FileOf(files0, k)) = Identifier(FileOf(files0, j))
        /\ FileOf(files0, k).body # FileOf(files0, j).body

(***************************************************************************)
(* C13.  Absent-key errors: get, remove and replace called with a key that *)
(* is not in the store fail with KeyError and leave the TOC and the files  *)
(* as they were; replace on such a key writes no temporary file and makes  *)
(* no temporary key; once remove(key) succeeded, get(key) and remove(key)  *)
(* fail with KeyError.                                                     *)
(***************************************************************************)
AbsentCall ==
    last.op \in {"get", "remove", "replace"} /\ last.key \notin KeysOf(last.pre.files)

RemovedOk == last.op = "remove" /\ last.result = "ok"

C13_AbsentKeyErrors ==
    /\ AbsentCall =>
        /\ last.result = "KeyError"
        /\ files = last.pre.files
        /\ toc = last.pre.toc
        /\ last.temp_key = 0
        /\ \A k \in KeysOf(files) \cup DOMAIN toc : k < nextKey
    /\ RemovedOk =>
        /\ last.key \notin KeysOf(files) \cup DOMAIN toc
        /\ GetMessage(Store, last.key).result = "KeyError"
        /\ Remove(Store, last.key).result = "KeyError"
        /\ Remove(Store, last.key).st.files = files
        /\ Remove(Store, last.key).st.toc = toc

\* replace was called on a key that had been removed, with a message left in
\* the store
C13_Witness ==
    /\ AbsentCall
    /\ last.op = "replace"
    /\ last.key < nextKey
    /\ Cardinality(DOMAIN files) >= 1

(***************************************************************************)
(* C14.  Eager index, refresh only on miss: add puts key -> subdir/key     *)
(* [:info] into the TOC before it returns ("new" and no suffix for a       *)
(* message that names none) without listing the directory; whatever adds   *)
(* and replaces were made, get of a key that is in the store resolves from *)
(* the TOC without a re-scan; a call re-scans only when it looks up a key  *)
(* that is not in the TOC.                                                 *)
(***************************************************************************)
C14_EagerIndex ==
    /\ last.op = "add" =>
        /\ last.scans = 0
        /\ last.key \in DOMAIN toc
        /\ toc[last.key] = IF last.msg.kind = "maildir"
                           THEN <<last.msg.subdir, last.key, last.msg.info>>
                           ELSE <<"new", last.key, "">>
        /\ toc[last.key] \in DOMAIN files
    /\ \A k \in KeysOf(files) :
        /\ GetMessage(Store, k).result = "ok"
        /\ GetMessage(Store, k).scans = 0
    /\ last.scans > 0 =>
        /\ last.op \in {"get", "remove", "replace"}
        /\ last.key \notin DOMAIN last.pre.toc

\* a replace has put a new message under a key that add had filed in cur, a
\* second message is stored, and a key was looked up in vain before
C14_Witness ==
    /\ last.op = "replace" /\ last.result = "ok" /\ last.scans = 0
    /\ toc[last.key][1] = "cur"
    /\ Cardinality(DOMAIN toc) = 2
    /\ lastRead = 1

(***************************************************************************)
(* C15.  Report/mutation correspondence: in a live pass an "Updating       *)
(* message" line is printed for an identical set exactly if replace is     *)
(* issued for its survivor, one "Deleting duplicate message" line is       *)
(* printed per casualty and remove is issued for exactly those keys, and   *)
(* the lines of a set are all printed before the first call for the set.   *)
(***************************************************************************)
\* the call a line announces
LineCall(l) ==
    [op |-> IF l[1] = "Updating message" THEN "replace" ELSE "remove", key |-> l[2]]

Announced == [i \in 1..Len(out) |-> LineCall(out[i])]

\* the replace and remove calls made so far, in order
Issued ==
    LET calls == SelectSeq(ops, LAMBDA o : o.op # "flush")
    IN [i \in 1..Len(calls) |-> [op |-> calls[i].op, key |-> calls[i].key]]

C15_ReportMatchesCalls ==
    (~dryrun /\ pc # "idle") =>
        LET issued == Issued
            announced == Announced
            sets == Sets0
            kept == [S \in sets |-> Survivor(S)]
            survivors == {kept[S] : S \in sets}
            casualties == UNION {S \ {kept[S]} : S \in sets}
        IN /\ IsPrefix(issued, announced)
           /\ pc = "done" => issued = announced
           /\ \A i, j \in 1..Len(out) : i # j => out[i] # out[j]
           /\ \A i \in 1..Len(out) :
                IF out[i][1] = "Updating message"
                THEN out[i][2] \in survivors
                ELSE out[i][2] \in casualties
           /\ \A S \in sets :
                OpsOn(S) # {} =>
                    \A k \in S \ {kept[S]} :
                        <<"Deleting duplicate message", k>> \in Range(out)
           /\ pc = "done" =>
                \A k \in casualties :
                    Cardinality({i \in 1..Len(ops) :
                        ops[i] = [op |-> "remove", key |-> k, result |-> "ok"]}) = 1

\* a live pass over two identical sets is done: one survivor was updated,
\* the other one not
C15_Witness ==
    /\ LivePassDone
    /\ Cardinality(Sets0) = 2
    /\ Cardinality({i \in 1..Len(out) : out[i][1] = "Updating message"}) = 1
    /\ Cardinality({i \in 1..Len(ops) : ops[i].op = "replace"}) = 1
    /\ Cardinality({i \in 1..Len(ops) : ops[i].op = "remove"}) = 2

(***************************************************************************)
(* C16.  Path failure isolation: when several paths are given and the pass *)
(* of one of them fails with an error, the passes of the paths after it    *)
(* are still run: the process does not end before every path was taken up. *)
(***************************************************************************)
ProcessEnded == pc \in {"exited", "aborted"}

C16_PathIsolation == ProcessEnded => passNo = NumPaths

(***************************************************************************)
(* C17.  Merge-before-delete ordering: for each identical set of a live    *)
(* pass the replace of the survivor, when a merge was announced, is done   *)
(* before the first casualty is removed, so in every state of the pass     *)
(* every provenance (field, value) pair that a member of the set carried   *)
(* in the initial mailbox is on a message stored under a key of the set.   *)
(***************************************************************************)
ReplaceBeforeRemove(S) ==
    /\ \A i, j \in OpsOn(S) :
        (ops[i].op = "remove" /\ ops[j].op = "replace") => (j < i /\ ops[j].result = "ok")
    /\ Present(S) # S => MergeStored(S)

PairsKept(S) ==
    \A k \in S : \A pair \in ProvPairs(FileOf(files0, k).headers) :
        \E j \in Present(S) : pair \in ProvPairs(FileOf(files, j).headers)

C17_MergeBeforeDelete ==
    (~dryrun /\ pc # "idle") =>
        \A S \in Sets0 : ReplaceBeforeRemove(S) /\ PairsKept(S)

(***************************************************************************)
(* C18.  No operation on a dead key: with the mailbox to itself and an     *)
(* enumeration that yields each key once, a key is in at most one          *)
(* identical set, the key that is kept is not among those removed and no   *)
(* key is removed twice: a live pass makes no get, replace or remove on a  *)
(* key it has removed and never fails with KeyError.                       *)
(***************************************************************************)
\* the keys the pass has grouped, and those of the set it is working on
GroupedKeys == [i \in 1..Len(key_by_msgid) |-> key_by_msgid[i].v]

RECURSIVE Flatten(_)
Flatten(q) == IF q = <<>> THEN <<>> ELSE Head(q) \o Flatten(Tail(q))

NoRepeat(q) == \A i, j \in 1..Len(q) : i # j => q[i] # q[j]

RemovedKeys == {ops[i].key : i \in {j \in 1..Len(ops) : ops[j].op = "remove"}}

C18_NoDeadKey ==
    (~dryrun /\ pc # "idle") =>
        /\ NoRepeat(Flatten(GroupedKeys))
        /\ LET sets == Sets0
           IN /\ \A S, T \in sets : S # T => S \cap T = {}
              /\ {Survivor(S) : S \in sets} \cap RemovedKeys = {}
        /\ \A i \in 1..Len(ops) : ops[i].result # "KeyError"
        /\ \A i, j \in 1..Len(ops) :
            (i < j /\ ops[i].op = "remove") => ops[j].key # ops[i].key
        /\ pc \in {"replace", "remove"} =>
            /\ new_key \in KeysOf(files)
            /\ \A i \in 1..Len(msgs) : msgs[i][1] # new_key
            /\ \A i \in ri..Len(msgs) : msgs[i][1] \in KeysOf(files)
        /\ pc = "groups" =>
            \A g \in gi..Len(key_by_msgid) : Range(key_by_msgid[g].v) \subseteq KeysOf(files)
        /\ pc = "failed" => (ops # <<>> /\ ops[Len(ops)].result = "OSError")

\* the pass has removed two of three identical messages and gone on to the
\* group of another identifier
C18_Witness ==
    /\ LivePassDone
    /\ \E S \in Sets0 : Cardinality(S) = 3 /\ Cardinality(S \cap RemovedKeys) = 2
    /\ Len(key_by_msgid) = 2

(***************************************************************************)
(* C19.  Replace never relocates a key: after a successful replace the key *)
(* has the TOC path (subdirectory and flags suffix) it had before the      *)
(* call, whatever subdirectory and flags the given message names; these    *)
(* show only in the name of the temporary file, which the rename removes.  *)
(***************************************************************************)
\* where the message given to the last call asks to be filed
AskedPlace ==
    IF last.msg.kind = "maildir" THEN <<last.msg.subdir, last.msg.info>> ELSE <<"new", "">>

C19_ReplaceKeepsPath ==
    ReplacedOk =>
        /\ toc[last.key] = last.pre.toc[last.key]
        /\ toc[last.key] \in DOMAIN files
        /\ {p \in DOMAIN files : p[2] = last.key} = {last.pre.toc[last.key]}
        /\ GetMessage(Store, last.key).msg.subdir = last.pre.toc[last.key][1]
        /\ GetMessage(Store, last.key).msg.info = last.pre.toc[last.key][3]
        /\ <<AskedPlace[1], last.temp_key, AskedPlace[2]>> \notin DOMAIN files
        /\ \A p \in DOMAIN files : p[2] # last.temp_key
        /\ DOMAIN files = DOMAIN last.pre.files

\* a message that names cur and the flag S has replaced a message filed in new
C19_Witness ==
    /\ ReplacedOk
    /\ last.pre.toc[last.key][1] = "new"
    /\ AskedPlace = <<"cur", "2,S">>
    /\ FileOf(files, last.key).headers # FileOf(last.pre.files, last.key).headers

====
